---- MODULE Spec2Model ----
(***************************************************************************)
(* The logs-agent: Agent.Start / Agent.Stop (pkg/logs agent) and the       *)
(* Pipeline (pkg/logs/pipeline/pipeline.go).  The Agent wires              *)
(*   Collector -> Processor -> Sender -> Auditor                           *)
(* through bounded Go channels and starts / stops the parts in order.      *)
(* The restart package (Starter, SerialStopper, ParallelStopper), the      *)
(* Processor, the Sender, the Auditor and the DestinationsContext are not  *)
(* part of the two source files; their steps follow the specification.     *)
(* The PipelineProvider is modelled with a pool of one Pipeline.           *)
(***************************************************************************)
EXTENDS Integers, Sequences, FiniteSets, TLC

\* ------------------------------------------------------------------ bounds
\* Largest logs_config.pipeline.buffer_size explored.
MaxBuf == 2
\* Number of messages the collectors may submit in one run.
MaxMsgs == 6
\* Number of inputs of the Agent explored (NewAgent builds five).
NumInputs == 2
\* Number of non-blocking submit attempts explored (SpecTry).
MaxAttempts == 6
\* Number of Agent.Start() calls explored (SpecRestart).
MaxStarts == 2

\* -------------------------------------------------------------- components
DestinationsCtx == "destinationsCtx"
Auditor == "auditor"
Provider == "pipelineProvider"

\* The inputs NewAgent builds, in order.
AllInputs == <<"file", "container", "listener", "journald", "windowsevent">>

\* Agent.inputs: the first NumInputs of them are explored.
Inputs == SubSeq(AllInputs, 1, IF NumInputs < Len(AllInputs) THEN NumInputs ELSE Len(AllInputs))

InputSet == {Inputs[i] : i \in 1..Len(Inputs)}
Components == {DestinationsCtx, Auditor, Provider} \cup InputSet
Stages == {"processor", "sender"}
Callers == {"stopper", "agent"}

\* ----------------------------------------------------------------- wiring
\* NewPipeline: the channel each stage reads from and writes to.
\* Mutant: the Sender is handed the Pipeline's entry channel.
SenderInputChan_Entry == "inputChan"
SenderInputChan == "senderChan"
SenderOutputChan == "outputChan"
ProcessorInputChan == "inputChan"
ProcessorOutputChan == "senderChan"
PipelineInputChan == "inputChan"
\* The Auditor reads the channel the pipelines forward to.
AuditorInputChan == "outputChan"

Chans == {"inputChan", "senderChan", "outputChan"}

\* Mutants: a channel made one slot larger than bufferSize.
SenderChanCap_PlusOne(b) == b + 1
InputChanCap_PlusOne(b) == b + 1

\* senderChan := make(chan *message.Message, bufferSize)
SenderChanCap(b) == b
\* inputChan := make(chan *message.Message, bufferSize)
InputChanCap(b) == b
\* auditor.New(run_path, pipelineBufferSize, health)
AuditorChanCap(b) == b

ChanCap(c, b) ==
  CASE c = "inputChan" -> InputChanCap(b)
    [] c = "senderChan" -> SenderChanCap(b)
    [] c = "outputChan" -> AuditorChanCap(b)

\* Mutant: the inputs are handed to the Starter first.
AgentStartOrder_InputsFirst == Inputs \o <<DestinationsCtx, Auditor, Provider>>

\* Agent.Start: restart.NewStarter(destinationsCtx, auditor, pipelineProvider)
\* followed by starter.Add(input) for each input.
AgentStartOrder == <<DestinationsCtx, Auditor, Provider>> \o Inputs

\* Mutant: the Auditor is handed to the SerialStopper before the provider.
AgentStopGroups_AuditorFirst == <<InputSet, {Auditor}, {Provider}, {DestinationsCtx}>>

\* Mutant: each input is handed to the SerialStopper as a group of its own.
AgentStopGroups_SerialInputs ==
  [i \in 1..Len(Inputs) |-> {Inputs[i]}] \o <<{Provider}, {Auditor}, {DestinationsCtx}>>

\* Agent.Stop: restart.NewSerialStopper(inputs, pipelineProvider, auditor,
\* destinationsCtx), inputs being one ParallelStopper.
AgentStopGroups == <<InputSet, {Provider}, {Auditor}, {DestinationsCtx}>>

\* Mutants: the two calls of Pipeline.Start / Pipeline.Stop swapped.
PipelineStartOrder_ProcessorFirst == <<"processor", "sender">>
PipelineStopOrder_SenderFirst == <<"sender", "processor">>

\* Pipeline.Start: p.sender.Start(); p.processor.Start()
PipelineStartOrder == <<"sender", "processor">>

\* Pipeline.Stop: p.processor.Stop(); p.sender.Stop()
PipelineStopOrder == <<"processor", "sender">>

\* ------------------------------------------------------------------ state
VARIABLES
  bufferSize,    \* logs_config.pipeline.buffer_size
  destMode,      \* "accept": the main Destination delivers; "block": never
  agentPc,       \* position of the caller of Agent.Start / Agent.Stop
  comp,          \* lifecycle of every managed component
  stage,         \* lifecycle of the Pipeline's Processor and Sender
  ctxCall,       \* DestinationsContext.Stop() calls: none / active / done
  cClosed,       \* the channel c of Agent.Stop is closed
  chans,         \* contents of the three channels
  procHold,      \* message the Processor has read and not yet written
  senderHold,    \* message the Sender has read and not yet forwarded
  nSubmitted,    \* messages accepted by InputChan so far (numbered 1..n)
  acked,         \* messages the Auditor has received, in order
  drained,       \* messages forwarded without network delivery
  stopSubmitted, \* nSubmitted when Agent.Stop was called
  logEvents,     \* levels of the log events Agent.Stop emitted
  attemptLog,    \* outcome of each non-blocking submit attempt
  nStarts        \* number of Agent.Start() calls so far

vars == <<bufferSize, destMode, agentPc, comp, stage, ctxCall, cClosed, chans,
          procHold, senderHold, nSubmitted, acked, drained, stopSubmitted,
          logEvents, attemptLog, nStarts>>

lifeVars == <<agentPc, comp, stage, ctxCall, cClosed, stopSubmitted, logEvents>>
dataVars == <<chans, procHold, senderHold, nSubmitted, acked, drained, attemptLog>>
confVars == <<bufferSize, destMode>>

\* ---------------------------------------------------------------- helpers
Active(s) == s \in {"Running", "Stopping"}
StartReturned(s) == s \in {"Running", "Stopping", "Stopped"}
Full(c) == Len(chans[c]) >= ChanCap(c, bufferSize)
Cancelled == comp[DestinationsCtx] = "Stopped"

IndexOf(seq, x) == CHOOSE i \in 1..Len(seq) : seq[i] = x
GroupOf(x) == CHOOSE k \in 1..Len(AgentStopGroups) : x \in AgentStopGroups[k]

\* The SerialStopper's own Stop() call on x has been invoked / has returned.
StopperInvoked(x) ==
  IF x = DestinationsCtx THEN ctxCall["stopper"] # "none"
  ELSE comp[x] \in {"Stopping", "Stopped"}
StopperReturned(x) ==
  IF x = DestinationsCtx THEN ctxCall["stopper"] = "done"
  ELSE comp[x] = "Stopped"

StopperRunning == agentPc \notin {"init", "starting", "started"} /\ ~cClosed

\* ---------------------------------------------------------------- initial
Init ==
  /\ bufferSize \in 1..MaxBuf
  /\ destMode \in {"accept", "block"}
  /\ agentPc = "init"
  /\ comp = [x \in Components |-> "NotStarted"]
  /\ stage = [s \in Stages |-> "NotStarted"]
  /\ ctxCall = [c \in Callers |-> "none"]
  /\ cClosed = FALSE
  /\ chans = [c \in Chans |-> <<>>]
  /\ procHold = <<>>
  /\ senderHold = <<>>
  /\ nSubmitted = 0
  /\ acked = <<>>
  /\ drained = {}
  /\ stopSubmitted = 0
  /\ logEvents = <<>>
  /\ attemptLog = <<>>
  /\ nStarts = 0

\* ------------------------------------------------------------ Agent.Start
AgentStartCall ==
  /\ agentPc = "init"
  /\ agentPc' = "starting"
  /\ nStarts' = nStarts + 1
  /\ UNCHANGED <<comp, stage, ctxCall, cClosed, stopSubmitted, logEvents>>
  /\ UNCHANGED <<dataVars, confVars>>

\* Agent.Start() called again once Agent.Stop() has returned: it builds a
\* new Starter over the same components, whatever their state.
AgentStartAgain ==
  /\ agentPc = "returned"
  /\ nStarts < MaxStarts
  /\ agentPc' = "starting"
  /\ nStarts' = nStarts + 1
  /\ UNCHANGED <<comp, stage, ctxCall, cClosed, stopSubmitted, logEvents>>
  /\ UNCHANGED <<dataVars, confVars>>

\* Starter.Start: each member's Start() in order, synchronously.
StarterInvoke(x) ==
  /\ agentPc = "starting"
  /\ x \in {AgentStartOrder[i] : i \in 1..Len(AgentStartOrder)}
  /\ comp[x] \in {"NotStarted", "Stopped"}
  /\ \A j \in 1..(IndexOf(AgentStartOrder, x) - 1) :
        comp[AgentStartOrder[j]] = "Running"
  /\ comp' = [comp EXCEPT ![x] = "Starting"]
  /\ UNCHANGED <<agentPc, stage, ctxCall, cClosed, stopSubmitted, logEvents>>
  /\ UNCHANGED <<dataVars, confVars, nStarts>>

\* Start() of the DestinationsContext, the Auditor or an input returns.
SimpleStartReturn(x) ==
  /\ x \in Components \ {Provider}
  /\ comp[x] = "Starting"
  /\ comp' = [comp EXCEPT ![x] = "Running"]
  /\ UNCHANGED <<agentPc, stage, ctxCall, cClosed, stopSubmitted, logEvents>>
  /\ UNCHANGED <<dataVars, confVars, nStarts>>

\* Pipeline.Start invokes the next stage's Start().
PipelineStartInvoke(s) ==
  /\ comp[Provider] = "Starting"
  /\ stage[s] \in {"NotStarted", "Stopped"}
  /\ \A j \in 1..(IndexOf(PipelineStartOrder, s) - 1) :
        stage[PipelineStartOrder[j]] = "Running"
  /\ stage' = [stage EXCEPT ![s] = "Starting"]
  /\ UNCHANGED <<agentPc, comp, ctxCall, cClosed, stopSubmitted, logEvents>>
  /\ UNCHANGED <<dataVars, confVars, nStarts>>

StageStartReturn(s) ==
  /\ stage[s] = "Starting"
  /\ stage' = [stage EXCEPT ![s] = "Running"]
  /\ UNCHANGED <<agentPc, comp, ctxCall, cClosed, stopSubmitted, logEvents>>
  /\ UNCHANGED <<dataVars, confVars, nStarts>>

ProviderStartReturn ==
  /\ comp[Provider] = "Starting"
  /\ \A s \in Stages : stage[s] = "Running"
  /\ comp' = [comp EXCEPT ![Provider] = "Running"]
  /\ UNCHANGED <<agentPc, stage, ctxCall, cClosed, stopSubmitted, logEvents>>
  /\ UNCHANGED <<dataVars, confVars, nStarts>>

AgentStartReturn ==
  /\ agentPc = "starting"
  /\ \A x \in Components : comp[x] = "Running"
  /\ agentPc' = "started"
  /\ UNCHANGED <<comp, stage, ctxCall, cClosed, stopSubmitted, logEvents>>
  /\ UNCHANGED <<dataVars, confVars, nStarts>>

\* ------------------------------------------------------------- Agent.Stop
\* Builds the stoppers, spawns the goroutine running stopper.Stop() and
\* reaches the select.
AgentStopCall ==
  /\ agentPc = "started"
  /\ agentPc' = "select"
  /\ stopSubmitted' = nSubmitted
  /\ cClosed' = FALSE
  /\ ctxCall' = [c \in Callers |-> "none"]
  /\ UNCHANGED <<comp, stage, logEvents>>
  /\ UNCHANGED <<dataVars, confVars, nStarts>>

\* SerialStopper.Stop / ParallelStopper.Stop: Stop() is invoked on a member
\* of a group once every member of the earlier groups has returned; the
\* members of one group are invoked concurrently.
StopperInvoke(x) ==
  /\ StopperRunning
  /\ x \in Components
  /\ ~StopperInvoked(x)
  /\ \A k \in 1..(GroupOf(x) - 1) : \A y \in AgentStopGroups[k] : StopperReturned(y)
  /\ IF x = DestinationsCtx
     THEN /\ ctxCall' = [ctxCall EXCEPT !["stopper"] = "active"]
          /\ comp' = [comp EXCEPT ![x] = IF @ = "Running" THEN "Stopping" ELSE @]
     ELSE /\ comp[x] = "Running"
          /\ comp' = [comp EXCEPT ![x] = "Stopping"]
          /\ UNCHANGED ctxCall
  /\ UNCHANGED <<agentPc, stage, cClosed, stopSubmitted, logEvents>>
  /\ UNCHANGED <<dataVars, confVars, nStarts>>

\* An input's Stop() returns.
InputStopReturn(x) ==
  /\ x \in InputSet
  /\ comp[x] = "Stopping"
  /\ comp' = [comp EXCEPT ![x] = "Stopped"]
  /\ UNCHANGED <<agentPc, stage, ctxCall, cClosed, stopSubmitted, logEvents>>
  /\ UNCHANGED <<dataVars, confVars, nStarts>>

\* Pipeline.Stop invokes the next stage's Stop().
PipelineStopInvoke(s) ==
  /\ comp[Provider] = "Stopping"
  /\ stage[s] = "Running"
  /\ \A j \in 1..(IndexOf(PipelineStopOrder, s) - 1) :
        stage[PipelineStopOrder[j]] = "Stopped"
  /\ stage' = [stage EXCEPT ![s] = "Stopping"]
  /\ UNCHANGED <<agentPc, comp, ctxCall, cClosed, stopSubmitted, logEvents>>
  /\ UNCHANGED <<dataVars, confVars, nStarts>>

\* Processor.Stop() returns once its input channel is drained.
ProcessorStopReturn ==
  /\ stage["processor"] = "Stopping"
  /\ chans[ProcessorInputChan] = <<>>
  /\ procHold = <<>>
  /\ stage' = [stage EXCEPT !["processor"] = "Stopped"]
  /\ UNCHANGED <<agentPc, comp, ctxCall, cClosed, stopSubmitted, logEvents>>
  /\ UNCHANGED <<dataVars, confVars, nStarts>>

\* Sender.Stop() returns once its input channel is drained.
SenderStopReturn ==
  /\ stage["sender"] = "Stopping"
  /\ chans[SenderInputChan] = <<>>
  /\ senderHold = <<>>
  /\ stage' = [stage EXCEPT !["sender"] = "Stopped"]
  /\ UNCHANGED <<agentPc, comp, ctxCall, cClosed, stopSubmitted, logEvents>>
  /\ UNCHANGED <<dataVars, confVars, nStarts>>

ProviderStopReturn ==
  /\ comp[Provider] = "Stopping"
  /\ \A s \in Stages : stage[s] = "Stopped"
  /\ comp' = [comp EXCEPT ![Provider] = "Stopped"]
  /\ UNCHANGED <<agentPc, stage, ctxCall, cClosed, stopSubmitted, logEvents>>
  /\ UNCHANGED <<dataVars, confVars, nStarts>>

\* Auditor.Stop() returns once its input channel is drained.
AuditorStopReturn ==
  /\ comp[Auditor] = "Stopping"
  /\ chans[AuditorInputChan] = <<>>
  /\ comp' = [comp EXCEPT ![Auditor] = "Stopped"]
  /\ UNCHANGED <<agentPc, stage, ctxCall, cClosed, stopSubmitted, logEvents>>
  /\ UNCHANGED <<dataVars, confVars, nStarts>>

\* A DestinationsContext.Stop() call cancels the context and returns.
DestinationsContextStopReturn(c) ==
  /\ ctxCall[c] = "active"
  /\ ctxCall' = [ctxCall EXCEPT ![c] = "done"]
  /\ comp' = [comp EXCEPT ![DestinationsCtx] = "Stopped"]
  /\ UNCHANGED <<agentPc, stage, cClosed, stopSubmitted, logEvents>>
  /\ UNCHANGED <<dataVars, confVars, nStarts>>

\* stopper.Stop() has returned in the goroutine: close(c).
StopperClose ==
  /\ StopperRunning
  /\ \A x \in Components : StopperReturned(x)
  /\ cClosed' = TRUE
  /\ UNCHANGED <<agentPc, comp, stage, ctxCall, stopSubmitted, logEvents>>
  /\ UNCHANGED <<dataVars, confVars, nStarts>>

\* Mutant: the forced stop is also made when the stopper finished first.
AgentStopSelectDone_Force ==
  /\ agentPc = "select"
  /\ cClosed
  /\ agentPc' = "forcing"
  /\ ctxCall' = [ctxCall EXCEPT !["agent"] = "active"]
  /\ UNCHANGED <<comp, stage, cClosed, stopSubmitted, logEvents>>
  /\ UNCHANGED <<dataVars, confVars, nStarts>>

\* select { case <-c: }
AgentStopSelectDone ==
  /\ agentPc = "select"
  /\ cClosed
  /\ agentPc' = "returned"
  /\ UNCHANGED <<comp, stage, ctxCall, cClosed, stopSubmitted, logEvents>>
  /\ UNCHANGED <<dataVars, confVars, nStarts>>

\* select { case <-time.After(timeout): log.Info(...) }
AgentStopSelectTimeout ==
  /\ agentPc = "select"
  /\ agentPc' = "timedout"
  /\ logEvents' = Append(logEvents, "info")
  /\ UNCHANGED <<comp, stage, ctxCall, cClosed, stopSubmitted>>
  /\ UNCHANGED <<dataVars, confVars, nStarts>>

\* Mutant: the timeout branch does not call destinationsCtx.Stop().
AgentStopForce_NoStop ==
  /\ agentPc = "timedout"
  /\ agentPc' = "forcing"
  /\ ctxCall' = [ctxCall EXCEPT !["agent"] = "done"]
  /\ UNCHANGED <<comp, stage, cClosed, stopSubmitted, logEvents>>
  /\ UNCHANGED <<dataVars, confVars, nStarts>>

\* a.destinationsCtx.Stop() in the timeout branch.
AgentStopForce ==
  /\ agentPc = "timedout"
  /\ agentPc' = "forcing"
  /\ ctxCall' = [ctxCall EXCEPT !["agent"] = "active"]
  /\ comp' = [comp EXCEPT ![DestinationsCtx] = IF @ = "Running" THEN "Stopping" ELSE @]
  /\ UNCHANGED <<stage, cClosed, stopSubmitted, logEvents>>
  /\ UNCHANGED <<dataVars, confVars, nStarts>>

\* Mutant: the timeout branch returns without the second <-c.
AgentStopWaitAgain_NoWait ==
  /\ agentPc = "forcing"
  /\ ctxCall["agent"] = "done"
  /\ agentPc' = "returned"
  /\ UNCHANGED <<comp, stage, ctxCall, cClosed, stopSubmitted, logEvents>>
  /\ UNCHANGED <<dataVars, confVars, nStarts>>

\* <-c after the forced stop has returned.
AgentStopWaitAgain ==
  /\ agentPc = "forcing"
  /\ ctxCall["agent"] = "done"
  /\ cClosed
  /\ agentPc' = "returned"
  /\ UNCHANGED <<comp, stage, ctxCall, cClosed, stopSubmitted, logEvents>>
  /\ UNCHANGED <<dataVars, confVars, nStarts>>

\* -------------------------------------------------------------- data flow
CollectorCanPush == \E x \in InputSet : Active(comp[x])

\* A put on the Pipeline's InputChan blocks: the channel is full.
SubmitWouldBlock == Full(PipelineInputChan)

\* A collector puts the next message on the Pipeline's InputChan (blocking).
Submit ==
  /\ CollectorCanPush
  /\ nSubmitted < MaxMsgs
  /\ ~SubmitWouldBlock
  /\ chans' = [chans EXCEPT ![PipelineInputChan] = Append(@, nSubmitted + 1)]
  /\ nSubmitted' = nSubmitted + 1
  /\ UNCHANGED <<procHold, senderHold, acked, drained, attemptLog>>
  /\ UNCHANGED <<lifeVars, confVars, nStarts>>

\* A collector tries to put the next message without blocking.
TrySubmit ==
  /\ CollectorCanPush
  /\ Len(attemptLog) < MaxAttempts
  /\ IF SubmitWouldBlock
     THEN /\ attemptLog' = Append(attemptLog, "wouldblock")
          /\ UNCHANGED <<chans, nSubmitted>>
     ELSE /\ attemptLog' = Append(attemptLog, "ok")
          /\ chans' = [chans EXCEPT ![PipelineInputChan] = Append(@, nSubmitted + 1)]
          /\ nSubmitted' = nSubmitted + 1
  /\ UNCHANGED <<procHold, senderHold, acked, drained>>
  /\ UNCHANGED <<lifeVars, confVars, nStarts>>

ProcessorGet ==
  /\ Active(stage["processor"])
  /\ procHold = <<>>
  /\ chans[ProcessorInputChan] # <<>>
  /\ procHold' = <<Head(chans[ProcessorInputChan])>>
  /\ chans' = [chans EXCEPT ![ProcessorInputChan] = Tail(@)]
  /\ UNCHANGED <<senderHold, nSubmitted, acked, drained, attemptLog>>
  /\ UNCHANGED <<lifeVars, confVars, nStarts>>

ProcessorPut ==
  /\ Active(stage["processor"])
  /\ procHold # <<>>
  /\ ~Full(ProcessorOutputChan)
  /\ chans' = [chans EXCEPT ![ProcessorOutputChan] = Append(@, procHold[1])]
  /\ procHold' = <<>>
  /\ UNCHANGED <<senderHold, nSubmitted, acked, drained, attemptLog>>
  /\ UNCHANGED <<lifeVars, confVars, nStarts>>

SenderGet ==
  /\ Active(stage["sender"])
  /\ senderHold = <<>>
  /\ chans[SenderInputChan] # <<>>
  /\ senderHold' = <<Head(chans[SenderInputChan])>>
  /\ chans' = [chans EXCEPT ![SenderInputChan] = Tail(@)]
  /\ UNCHANGED <<procHold, nSubmitted, acked, drained, attemptLog>>
  /\ UNCHANGED <<lifeVars, confVars, nStarts>>

\* The main Destination accepted the message, or the context is cancelled
\* and the message is force-drained; the Sender forwards it.
SenderForward ==
  /\ Active(stage["sender"])
  /\ senderHold # <<>>
  /\ destMode = "accept" \/ Cancelled
  /\ ~Full(SenderOutputChan)
  /\ chans' = [chans EXCEPT ![SenderOutputChan] = Append(@, senderHold[1])]
  /\ drained' = IF Cancelled THEN drained \cup {senderHold[1]} ELSE drained
  /\ senderHold' = <<>>
  /\ UNCHANGED <<procHold, nSubmitted, acked, attemptLog>>
  /\ UNCHANGED <<lifeVars, confVars, nStarts>>

AuditorRecv ==
  /\ Active(comp[Auditor])
  /\ chans[AuditorInputChan] # <<>>
  /\ acked' = Append(acked, Head(chans[AuditorInputChan]))
  /\ chans' = [chans EXCEPT ![AuditorInputChan] = Tail(@)]
  /\ UNCHANGED <<procHold, senderHold, nSubmitted, drained, attemptLog>>
  /\ UNCHANGED <<lifeVars, confVars, nStarts>>

\* ------------------------------------------------------------------- next
Lifecycle ==
  \/ AgentStartCall
  \/ \E x \in Components : StarterInvoke(x)
  \/ \E x \in Components : SimpleStartReturn(x)
  \/ \E s \in Stages : PipelineStartInvoke(s)
  \/ \E s \in Stages : StageStartReturn(s)
  \/ ProviderStartReturn
  \/ AgentStartReturn
  \/ AgentStopCall
  \/ \E x \in Components : StopperInvoke(x)
  \/ \E x \in InputSet : InputStopReturn(x)
  \/ \E s \in Stages : PipelineStopInvoke(s)
  \/ ProcessorStopReturn
  \/ SenderStopReturn
  \/ ProviderStopReturn
  \/ AuditorStopReturn
  \/ \E c \in Callers : DestinationsContextStopReturn(c)
  \/ StopperClose
  \/ AgentStopSelectDone
  \/ AgentStopSelectTimeout
  \/ AgentStopForce
  \/ AgentStopWaitAgain

Flow ==
  \/ ProcessorGet
  \/ ProcessorPut
  \/ SenderGet
  \/ SenderForward
  \/ AuditorRecv

Next == Lifecycle \/ Flow \/ Submit

Spec == Init /\ [][Next]_vars

\* --------------------------------------------------------------- fairness
\* Every goroutine that can take a step eventually takes one: the caller of
\* Agent.Start / Agent.Stop (whose timer fires once the grace period has
\* elapsed), the stopper goroutine, the goroutine the ParallelStopper spawns
\* per input, the Processor, the Sender and the Auditor.  Collectors are not
\* required to submit and Agent.Start / Agent.Stop need not be called.
StarterStep ==
  \/ \E x \in Components : StarterInvoke(x)
  \/ \E x \in Components : SimpleStartReturn(x)
  \/ \E s \in Stages : PipelineStartInvoke(s)
  \/ \E s \in Stages : StageStartReturn(s)
  \/ ProviderStartReturn
  \/ AgentStartReturn

AgentStopStep ==
  \/ AgentStopSelectDone
  \/ AgentStopSelectTimeout
  \/ AgentStopForce
  \/ DestinationsContextStopReturn("agent")
  \/ AgentStopWaitAgain

StopperStep ==
  \/ \E x \in Components \ InputSet : StopperInvoke(x)
  \/ \E s \in Stages : PipelineStopInvoke(s)
  \/ ProcessorStopReturn
  \/ SenderStopReturn
  \/ ProviderStopReturn
  \/ AuditorStopReturn
  \/ DestinationsContextStopReturn("stopper")
  \/ StopperClose

InputStopStep(x) == StopperInvoke(x) \/ InputStopReturn(x)

Fairness ==
  /\ WF_vars(StarterStep)
  /\ WF_vars(AgentStopStep)
  /\ WF_vars(StopperStep)
  /\ \A x \in InputSet : WF_vars(InputStopStep(x))
  /\ WF_vars(ProcessorGet \/ ProcessorPut)
  /\ WF_vars(SenderGet \/ SenderForward)
  /\ WF_vars(AuditorRecv)

FairSpec == Init /\ [][Next]_vars /\ Fairness

\* A single collector that only makes non-blocking submit attempts, on a
\* Pipeline with bufferSize = 1 whose main Destination blocks forever.
InitTry == Init /\ bufferSize = 1 /\ destMode = "block"
NextTry == Lifecycle \/ Flow \/ TrySubmit
SpecTry == InitTry /\ [][NextTry]_vars

\* Agent.Start() and Agent.Stop() called one after the other, several times.
NextRestart == Next \/ AgentStartAgain
SpecRestart == Init /\ [][NextRestart]_vars

\* ----------------------------------------------------------------- claims
Range(seq) == {seq[i] : i \in 1..Len(seq)}
StopInvoked(x) == comp[x] \in {"Stopping", "Stopped"}
StopCalled == agentPc \notin {"init", "starting", "started"}

\* Messages inside the Pipeline and on the way to the Auditor, oldest first.
InPipeline ==
  chans["outputChan"] \o senderHold \o chans["senderChan"] \o procHold \o chans["inputChan"]

\* C1: in the SerialStopper's sequence Stop() is invoked on the
\* PipelineProvider only after the Stop() of every input has returned, on
\* the Auditor only after the PipelineProvider's has returned, and on the
\* DestinationsContext only after the Auditor's has returned.
C1_StopOrder ==
  /\ StopInvoked(Provider) => \A x \in InputSet : comp[x] = "Stopped"
  /\ StopInvoked(Auditor) => comp[Provider] = "Stopped"
  /\ ctxCall["stopper"] # "none" => comp[Auditor] = "Stopped"
  /\ (\E x \in InputSet : StopInvoked(x)) => StopCalled

C1_Witness ==
  /\ cClosed
  /\ ctxCall["stopper"] = "done"
  /\ \A x \in Components : comp[x] = "Stopped"

\* C2: Start() is invoked on a component only after the Start() of every
\* component before it in the order DestinationsContext, Auditor,
\* PipelineProvider, inputs (in the order of Agent.inputs) has returned.
ClaimedStartOrder == <<"destinationsCtx", "auditor", "pipelineProvider">> \o Inputs

C2_StartOrder ==
  \A j \in 1..Len(ClaimedStartOrder) : \A i \in 1..(j - 1) :
    comp[ClaimedStartOrder[j]] # "NotStarted" => StartReturned(comp[ClaimedStartOrder[i]])

C2_Witness ==
  /\ agentPc = "started"
  /\ \A x \in Components : comp[x] = "Running"

\* C3: when Agent.Stop() has returned, the stop sequence has completed:
\* every input, the PipelineProvider, the Auditor and the
\* DestinationsContext have completed Stop(), on both branches of the select.
C3_StopReturnsAfterSequence ==
  agentPc = "returned" =>
    /\ cClosed
    /\ ctxCall["stopper"] = "done"
    /\ \A x \in Components : comp[x] = "Stopped"
    /\ \A s \in Stages : stage[s] = "Stopped"

C3_Witness ==
  /\ agentPc = "returned"
  /\ logEvents # <<>>
  /\ ctxCall["agent"] = "done"

\* C4: under fairness, once Agent.Stop() is called it eventually returns,
\* also when the main Destination blocks forever with messages queued.
C4_StopReturns == StopCalled ~> (agentPc = "returned")

C4_Witness ==
  /\ agentPc = "returned"
  /\ destMode = "block"
  /\ drained # {}
  /\ logEvents # <<>>

\* C5: the Auditor receives the submitted messages in submission order with
\* no duplicate and no loss, and when the Destinations accept, under
\* fairness, every submitted message is eventually received.
C5_Delivery ==
  /\ [](/\ Len(acked) <= nSubmitted
        /\ \A i \in 1..Len(acked) : acked[i] = i)
  /\ \A k \in 1..MaxMsgs :
       (destMode = "accept" /\ nSubmitted >= k) ~> (Len(acked) >= k)

C5_Witness ==
  /\ destMode = "accept"
  /\ agentPc = "started"
  /\ nSubmitted = MaxMsgs
  /\ acked = [i \in 1..MaxMsgs |-> i]
  /\ drained = {}

C7_Original ==
  (destMode = "block" /\ ~Cancelled /\ nSubmitted > 2 * bufferSize) => SubmitWouldBlock

\* C7 amended: with the main Destination blocking, once 2 * bufferSize + 2
\* messages have been submitted (both channels full, one message held by the
\* Processor and one by the Sender) the next submit blocks; the messages
\* are all still in the Pipeline, in submission order.
C7_Backpressure ==
  /\ (destMode = "block" /\ ~Cancelled /\ nSubmitted >= 2 * bufferSize + 2) => SubmitWouldBlock
  /\ (destMode = "block" /\ ~Cancelled) => InPipeline = [i \in 1..nSubmitted |-> i]
  /\ acked \o InPipeline = [i \in 1..nSubmitted |-> i]

C7_Witness ==
  /\ destMode = "block"
  /\ ~Cancelled
  /\ agentPc = "started"
  /\ nSubmitted = 2 * bufferSize + 2
  /\ SubmitWouldBlock

\* Number of accepted attempts before attempt i.
OkBefore(i) == Cardinality({j \in 1..(i - 1) : attemptLog[j] = "ok"})

\* C8 as stated: of 3 messages submitted one after the other, the first two
\* being accepted, the 3rd submit attempt reports "would block".
C8_Original ==
  (~Cancelled /\ Len(attemptLog) >= 3 /\ attemptLog[1] = "ok" /\ attemptLog[2] = "ok")
    => attemptLog[3] = "wouldblock"

\* C8 amended: with bufferSize = 1 and a blocking main Destination, every
\* submit attempt made after 2 * bufferSize + 2 = 4 messages were accepted
\* reports "would block", and no attempt is refused before bufferSize
\* messages were accepted.
C8_WouldBlock ==
  ~Cancelled =>
    \A i \in 1..Len(attemptLog) :
      /\ OkBefore(i) >= 2 * bufferSize + 2 => attemptLog[i] = "wouldblock"
      /\ attemptLog[i] = "wouldblock" => OkBefore(i) >= bufferSize

C8_Witness ==
  /\ ~Cancelled
  /\ Len(attemptLog) >= 5
  /\ attemptLog[3] = "ok"
  /\ OkBefore(5) = 4
  /\ attemptLog[5] = "wouldblock"

\* C9: the Processor's Start() is invoked only after the Sender's Start()
\* has returned, and whenever the Processor is running the Sender is running.
C9_SenderStartedFirst ==
  /\ stage["processor"] # "NotStarted" => StartReturned(stage["sender"])
  /\ Active(stage["processor"]) => stage["sender"] = "Running"

C9_Witness ==
  /\ stage["processor"] = "Starting"
  /\ stage["sender"] = "Running"

\* C10: the Sender's Stop() is invoked only after the Processor's Stop()
\* has returned.
C10_ProcessorStoppedFirst ==
  stage["sender"] \in {"Stopping", "Stopped"} => stage["processor"] = "Stopped"

C10_Witness ==
  /\ stage["sender"] = "Stopping"
  /\ stage["processor"] = "Stopped"
  /\ senderHold # <<>>

\* C11: in every state the entry queue (InputChan) and the inter-stage
\* queue (senderChan) of the Pipeline hold at most bufferSize messages, and
\* no put dropped or overwrote a message: the messages received by the
\* Auditor followed by those still in the Pipeline are exactly the
\* submitted ones, in order.
C11_BoundedQueues ==
  /\ Len(chans["inputChan"]) <= bufferSize
  /\ Len(chans["senderChan"]) <= bufferSize
  /\ acked \o InPipeline = [i \in 1..nSubmitted |-> i]
  /\ Len(chans["inputChan"]) = bufferSize => ~ENABLED Submit

C11_Witness ==
  /\ Len(chans["inputChan"]) = bufferSize
  /\ Len(chans["senderChan"]) = bufferSize
  /\ procHold # <<>>
  /\ nSubmitted < MaxMsgs
  /\ CollectorCanPush

\* C12: a component that has reached Stopped stays Stopped: Start() is
\* never invoked on it again.
C12_NoRestart ==
  [][\A x \in Components : comp[x] = "Stopped" => comp'[x] = "Stopped"]_vars

TimerFired == agentPc \in {"timedout", "forcing"} \/ logEvents # <<>>

OthersStopped == \A x \in Components \ {DestinationsCtx} : comp[x] = "Stopped"

\* C14: as long as the grace-period timer has not fired, the Agent has made
\* no forced DestinationsContext.Stop() call, and DestinationsContext.Stop()
\* is invoked only when every input, the PipelineProvider and the Auditor
\* have completed Stop(); a return without the timer leaves no forced call.
C14_EscapeHatchOnly ==
  /\ ~TimerFired =>
       /\ ctxCall["agent"] = "none"
       /\ (StopInvoked(DestinationsCtx) \/ ctxCall["stopper"] # "none") => OthersStopped
  /\ ctxCall["agent"] # "none" => agentPc \in {"forcing", "returned"}

C14_Witness ==
  /\ ~TimerFired
  /\ agentPc = "returned"
  /\ ctxCall["stopper"] = "done"
  /\ nSubmitted > 0

\* C15: from Agent.Start() to the return of Agent.Stop(), while an input is
\* running (started and its Stop() not yet returned) the PipelineProvider
\* is Running, and while the PipelineProvider is running the Auditor is
\* Running.
C15_ConsumerOutlivesProducer ==
  /\ \A x \in InputSet :
       comp[x] \in {"Starting", "Running", "Stopping"} => comp[Provider] = "Running"
  /\ comp[Provider] \in {"Starting", "Running", "Stopping"} => comp[Auditor] = "Running"

C15_Witness ==
  /\ \E x \in InputSet : comp[x] = "Stopping"
  /\ \E x \in InputSet : comp[x] = "Stopped"
  /\ comp[Provider] = "Running"
  /\ comp[Auditor] = "Running"

\* Number of DestinationsContext.Stop() calls invoked in this Agent.Stop().
CtxStopCalls == Cardinality({c \in Callers : ctxCall[c] # "none"})

\* C16 as stated: when Agent.Stop() has returned, DestinationsContext.Stop()
\* was invoked exactly once, on either branch of the select.
C16_Original == agentPc = "returned" => CtxStopCalls = 1

\* C16 amended: when Agent.Stop() has returned, DestinationsContext.Stop()
\* was invoked once (by the SerialStopper) if the stop sequence finished
\* before the timer fired, and twice (forced by the Agent, and by the
\* SerialStopper) if the timer fired first.
C16_CtxStopCalls ==
  agentPc = "returned" =>
    /\ ctxCall["stopper"] = "done"
    /\ CtxStopCalls = IF TimerFired THEN 2 ELSE 1

C16_Witness ==
  /\ agentPc = "returned"
  /\ TimerFired
  /\ ctxCall["agent"] = "done"
  /\ ctxCall["stopper"] = "done"

\* C17: while the stop sequence is at the inputs, Stop() can be invoked on
\* every input not yet stopped, whatever the state of the other inputs'
\* Stop(); and Stop() is invoked on the PipelineProvider only after the
\* Stop() of every input has returned.
C17_ParallelInputs ==
  /\ \A x \in InputSet :
       (StopperRunning /\ comp[x] = "Running") => ENABLED StopperInvoke(x)
  /\ StopInvoked(Provider) => \A x \in InputSet : comp[x] = "Stopped"

C17_Witness ==
  /\ \A x \in InputSet : comp[x] = "Stopping"
  /\ comp[Provider] = "Running"

\* C18: when the timer fired first, exactly one log event, of level
\* warning, was emitted before the forced DestinationsContext.Stop(); when
\* the stopper finished first, no event was emitted.
C18_WarningEvent ==
  /\ (agentPc \in {"timedout", "forcing"} \/ ctxCall["agent"] # "none")
       => logEvents = <<"warning">>
  /\ (agentPc = "returned" /\ ctxCall["agent"] = "none") => logEvents = <<>>

\* C19: the Agent's forced DestinationsContext.Stop() and the
\* SerialStopper's own DestinationsContext.Stop() are never in progress at
\* the same time.
C19_NoOverlap == ~(ctxCall["agent"] = "active" /\ ctxCall["stopper"] = "active")

====
